---- MODULE Spec2Model ----
(***************************************************************************)
(* The file indexer of Duplicate-File-Finder: setupDatabase, walkFiles,    *)
(* the progress reporter goroutine and the per-drive loop of main.          *)
(*                                                                         *)
(* Two builds of the program are modelled.  src/main.go prepares a plain   *)
(* INSERT on a table without a uniqueness constraint and takes no flags    *)
(* (Spec).  src/unnamed/part_001, lines 1-303, creates the table with      *)
(* UNIQUE(path, computer, disk_label), prepares INSERT .. ON CONFLICT ..   *)
(* DO UPDATE and takes the -delete-all and -drive flags (SpecFlags).       *)
(***************************************************************************)
EXTENDS Integers, Sequences, FiniteSets, TLC

\* ---------------------------------------------------------------- bounds
\* Entries, root directories included, on the drives of the machine.
MaxEntries == 2
\* Calls of walkFiles over all runs of the program against one files.db.
MaxScans == 2
\* Ticks of the one-second tickers the reporter goroutines of a run handle.
MaxTicks == 1
\* Statements the store refuses for an I/O reason, over all runs.
MaxRejects == 1
\* Entries below the root of the one large volume of SpecLive.
BigTreeLen == 101

\* ------------------------------------------------------ program constants
\* progress := make(chan int, 100)
ProgressCap == 100

\* getComputerName(): os.Hostname() of the scanning machine.
computerName == "H"

\* fmt.Sprintf("%c:\\", 'A'+i): the drive roots listDrives can return.
DriveLetters == {"C", "D"}

\* listDrives(): the drives in ascending letter order (nil off Windows).
DriveLists == {<<>>, <<"C">>, <<"C", "D">>}

\* getDiskLabel(drive): the volume label, "" when the call fails.
getDiskLabel(drive) == IF drive = "C" THEN "" ELSE "DATA"

\* -------------------------------------------------------- the file trees
\* A directory entry as filepath.WalkDir hands it to the callback:
\*   file    a regular file whose d.Info() succeeds,
\*   nostat  a non-directory whose d.Info() fails (statErr != nil),
\*   dir     a directory whose contents can be read,
\*   baddir  a directory whose ReadDir fails.
FileEntries == [kind : {"file"}, size : {1}]

ChildEntries == FileEntries \cup [kind : {"nostat", "dir", "baddir"}, size : {0}]

RootEntries == [kind : {"dir", "baddir"}, size : {0}]

SeqsUpTo(S, n) == UNION {[1..k -> S] : k \in 0..n}

\* A volume: whether os.Lstat(root) succeeds, and the entries of the tree
\* in the lexical pre-order of WalkDir, the root directory first.
UnreadableRoot == [rootOk |-> FALSE, entries |-> <<>>]

Trees ==
    {UnreadableRoot} \cup
    {[rootOk |-> TRUE, entries |-> <<r>> \o s] :
        r \in RootEntries, s \in SeqsUpTo(ChildEntries, MaxEntries - 1)}

\* The large volume: a readable root and BigTreeLen regular files.
BigTree ==
    [rootOk |-> TRUE,
     entries |-> [i \in 1..(BigTreeLen + 1) |->
                    IF i = 1 THEN [kind |-> "dir", size |-> 0]
                             ELSE [kind |-> "file", size |-> 1]]]

\* The calls WalkDir makes to the callback, in order.  An unreadable root
\* gets one call with err != nil and d == nil.  Every entry gets a call with
\* err == nil; a directory whose ReadDir fails gets a second call, with the
\* error, right after its first.
CallsFrom(entries) ==
    LET bad(i) == entries[i].kind = "baddir"
        first(i) == i + Cardinality({j \in 1..(i - 1) : bad(j)})
        last(i) == IF bad(i) THEN first(i) + 1 ELSE first(i)
        n == Len(entries) + Cardinality({j \in 1..Len(entries) : bad(j)})
    IN  [p \in 1..n |->
           LET i == CHOOSE i \in 1..Len(entries) : first(i) <= p /\ p <= last(i)
           IN  [i |-> i, err |-> p > first(i)]]

\* WalkDir as a walk that hands over neither an entry whose stat fails nor a
\* directory whose contents cannot be read.
WalkDirCallsSkipUnreadable(tree) ==
    IF ~tree.rootOk THEN <<[i |-> 1, err |-> TRUE]>>
    ELSE [p \in 1..Len(CallsFrom(tree.entries)) |->
            [i |-> CallsFrom(tree.entries)[p].i,
             err |-> tree.entries[CallsFrom(tree.entries)[p].i].kind \in {"nostat", "baddir"}]]

\* WalkDir as a walk of what is below the root only.
WalkDirCallsBelowRoot(tree) ==
    IF ~tree.rootOk THEN <<[i |-> 1, err |-> TRUE]>>
    ELSE Tail(CallsFrom(tree.entries))

WalkDirCalls(tree) ==
    IF ~tree.rootOk THEN <<[i |-> 1, err |-> TRUE]>>
    ELSE CallsFrom(tree.entries)

\* The size the callback computes for an entry: 0 for a directory and for an
\* entry whose Info() fails, info.Size() otherwise.
EntrySize(e) == IF e.kind = "file" THEN e.size ELSE 0

\* --------------------------------------------------------------- the store
\* The path of entry i of a drive.
PathOf(drive, i) == <<drive, i>>

\* The schemas a files.db can hold:
\*   none    no files table,
\*   path    files(id, path)                       (src/unnamed/part_000),
\*   plain   files(id, path, computer, disk_label, size)       (src/main.go),
\*   unique  plain + UNIQUE(path, computer, disk_label) (src/unnamed/part_001).
Schemas == {"none", "path", "plain", "unique"}

NullText == "NULL"

Max(S) == CHOOSE x \in S : \A y \in S : y <= x

\* A size no file of the trees has.
StaleSize == Max({e.size : e \in FileEntries}) + 1

\* Rows an earlier run may have left for the second entry of drive C: with
\* the label of today and a size of then, or under an older label.
StaleRow ==
    [id |-> 1, path |-> PathOf("C", 2), computer |-> computerName,
     disk_label |-> getDiskLabel("C"), size |-> StaleSize]

RelabelledRow ==
    [id |-> 2, path |-> PathOf("C", 2), computer |-> computerName,
     disk_label |-> "OLD", size |-> StaleSize]

PathOnlyRow ==
    [id |-> 1, path |-> PathOf("C", 2), computer |-> NullText,
     disk_label |-> NullText, size |-> 0]

PriorRows(schema) ==
    CASE schema = "none" -> {{}}
      [] schema = "path" -> {{PathOnlyRow}}
      [] OTHER -> {{StaleRow, RelabelledRow}}

\* files.db before the first run: absent, present but not usable as a
\* database, or a database left by a run of some build of the program.
DbFiles ==
    {[state |-> "absent", schema |-> "none", rows |-> {}],
     [state |-> "unusable", schema |-> "none", rows |-> {}]} \cup
    UNION {{[state |-> "ok", schema |-> s, rows |-> r] : r \in PriorRows(s)} :
            s \in Schemas}

\* id INTEGER PRIMARY KEY: the rowid SQLite assigns to a new row.
NextId(rows) == IF rows = {} THEN 1 ELSE Max({r.id : r \in rows}) + 1

SameKey(r, rec) ==
    /\ r.path = rec.path
    /\ r.computer = rec.computer
    /\ r.disk_label = rec.disk_label

\* db.Prepare of the statement of walkFiles: the INSERT names the columns
\* computer, disk_label and size, and the ON CONFLICT target of the upsert
\* must match a uniqueness constraint of the table.
PrepareOk(upsert, schema) ==
    IF upsert THEN schema = "unique" ELSE schema \in {"plain", "unique"}

\* The statement without its ON CONFLICT clause on a table without the
\* constraint: every write adds a row.
ExecStmtAlwaysInsert(upsert, schema, rows, rec) ==
    [ok |-> TRUE,
     rows |-> rows \cup {[id |-> NextId(rows), path |-> rec.path,
                          computer |-> rec.computer, disk_label |-> rec.disk_label,
                          size |-> rec.size]}]

\* stmt.Exec(path, computerName, diskLabel, size) on a healthy store:
\* [ok, rows].  A plain INSERT that hits the uniqueness constraint fails;
\* the upsert updates the size of the row with that key.
ExecStmt(upsert, schema, rows, rec) ==
    LET clash == {r \in rows : SameKey(r, rec)}
        fresh == [id |-> NextId(rows), path |-> rec.path,
                  computer |-> rec.computer, disk_label |-> rec.disk_label,
                  size |-> rec.size]
    IN  IF schema = "unique" /\ clash # {}
          THEN IF upsert
                 THEN [ok |-> TRUE,
                       rows |-> (rows \ clash) \cup
                                {[r EXCEPT !.size = rec.size] : r \in clash}]
                 ELSE [ok |-> FALSE, rows |-> rows]
          ELSE [ok |-> TRUE, rows |-> rows \cup {fresh}]

\* ------------------------------------------------------------- the flags
\* -drive values, as strings of characters ("" when the flag is not given).
DriveFlags == {<<>>, <<" ", "d", ":">>, <<"C">>, <<"x">>, <<" ">>}

\* strings.ToLower on one character.
ToLower(ch) == CASE ch = "C" -> "c" [] ch = "D" -> "d" [] OTHER -> ch

RECURSIVE TrimLeft(_)
TrimLeft(s) == IF s # <<>> /\ Head(s) = " " THEN TrimLeft(Tail(s)) ELSE s

RECURSIVE TrimRight(_)
TrimRight(s) ==
    IF s # <<>> /\ s[Len(s)] = " " THEN TrimRight(SubSeq(s, 1, Len(s) - 1)) ELSE s

\* strings.TrimSpace
TrimSpace(s) == TrimRight(TrimLeft(s))

\* driveInput := strings.ToLower(strings.TrimSpace(*driveFlag))
DriveInput(flag) == [i \in 1..Len(TrimSpace(flag)) |-> ToLower(TrimSpace(flag)[i])]

\* A match that compares the letter of the drive as listed, in upper case.
MatchingCaseSensitive(ds, flag) ==
    IF DriveInput(flag) = <<>> THEN {}
    ELSE {k \in 1..Len(ds) : ds[k] = DriveInput(flag)[1]}

\* The drives of the list whose lower-cased letter is driveInput[:1].
Matching(ds, flag) ==
    IF DriveInput(flag) = <<>> THEN {}
    ELSE {k \in 1..Len(ds) : ToLower(ds[k]) = DriveInput(flag)[1]}

\* drivesToScan of main: the whole list without -drive, else the first
\* matching drive under its name in the list.
DrivesToScan(ds, flag) ==
    IF flag = <<>> THEN ds
    ELSE <<ds[CHOOSE k \in Matching(ds, flag) : \A j \in Matching(ds, flag) : k <= j]>>

\* --------------------------------------------------------------- the state
VARIABLES
    drives,        \* what listDrives() returns on this machine
    volumes,       \* the file tree of each drive
    dbFile,        \* files.db: [state, schema, rows]
    dbAtStart,     \* files.db as this run of the program found it
    deleteFlag,    \* -delete-all
    driveFlag,     \* -drive
    pc,            \* where the main goroutine stands
    drivesToScan,  \* the drives main loops over
    vol,           \* the position in drivesToScan of the current drive
    totalFiles,    \* var totalFiles int of main
    count,         \* count of walkFiles
    calls,         \* the calls filepath.WalkDir makes in the current walk
    pos,           \* the next call of WalkDir to the callback
    rejected,      \* the paths whose write failed in the current walkFiles
    rejects,       \* the statements refused for an I/O reason so far
    fileCount,     \* fileCount, err := walkFiles(...)
    walkErr,       \* err != nil
    progress,      \* per scanned drive: the progress channel [buf, closed]
    done,          \* per scanned drive: whether the done channel is closed
    reporter,      \* per scanned drive: the reporter goroutine
    sent,          \* per scanned drive: the values walkFiles sent on progress
    outcomes,      \* the "Finished walking ..." lines printed in this run
    totalLine,     \* the "All drives processed ..." lines printed in this run
    scans          \* every walkFiles call that returned, over all runs

vars ==
    <<drives, volumes, dbFile, dbAtStart, deleteFlag, driveFlag, pc, drivesToScan, vol,
      totalFiles, calls, count, pos, rejected, rejects, fileCount, walkErr, progress,
      done, reporter, sent, outcomes, totalLine, scans>>

envVars == <<drives, volumes>>

flagVars == <<deleteFlag, driveFlag>>

walkVars == <<calls, count, pos, rejected, fileCount, walkErr>>

chanVars == <<progress, done, reporter>>

printVars == <<outcomes, totalLine>>

\* The drive main is scanning.
drive == drivesToScan[vol]

\* The state every invocation of main starts in.
ProcessStart ==
    /\ pc = "setup"
    /\ drivesToScan = <<>>
    /\ vol = 0
    /\ totalFiles = 0
    /\ calls = <<>>
    /\ count = 0
    /\ pos = 0
    /\ rejected = {}
    /\ fileCount = 0
    /\ walkErr = FALSE
    /\ progress = <<>>
    /\ done = <<>>
    /\ reporter = <<>>
    /\ sent = <<>>
    /\ outcomes = <<>>
    /\ totalLine = <<>>

\* The entries on the drives k.. of the list; a root that cannot be read is
\* one.
RECURSIVE TreeSize(_, _, _)
TreeSize(ds, vs, k) ==
    IF k > Len(ds) THEN 0
    ELSE (IF vs[ds[k]].rootOk THEN Len(vs[ds[k]].entries) ELSE 1) + TreeSize(ds, vs, k + 1)

\* The machine: a list of drives and a tree on each listed drive.
Machine(trees, entries) ==
    /\ drives \in DriveLists
    /\ volumes \in [DriveLetters -> trees]
    /\ \A d \in DriveLetters :
         (\A k \in 1..Len(drives) : drives[k] # d) => volumes[d] = UnreadableRoot
    /\ TreeSize(drives, volumes, 1) <= entries

InitCommon ==
    /\ dbFile \in DbFiles
    /\ dbAtStart = dbFile
    /\ rejects = 0
    /\ scans = <<>>
    /\ ProcessStart

\* src/main.go takes no flags.
Init ==
    /\ Machine(Trees, MaxEntries)
    /\ deleteFlag = FALSE
    /\ driveFlag = <<>>
    /\ InitCommon

\* src/unnamed/part_001: flag.Bool("delete-all", ..), flag.String("drive", ..)
InitFlags ==
    /\ Machine(Trees, MaxEntries)
    /\ deleteFlag \in BOOLEAN
    /\ driveFlag \in DriveFlags
    /\ InitCommon

\* Whether the store may refuse the next write for an I/O reason.
IoFailures == IF rejects < MaxRejects THEN BOOLEAN ELSE {FALSE}

\* ------------------------------------------------------------ setupDatabase
\* files.db after setupDatabase succeeded: CREATE TABLE when the file did not
\* exist, CREATE TABLE IF NOT EXISTS when it did.
CreatedSchema(unique) == IF unique THEN "unique" ELSE "plain"

\* A setupDatabase that drops the table and creates it again.
setupDatabaseRecreate(file, unique) ==
    [state |-> "ok", schema |-> CreatedSchema(unique), rows |-> {}]

setupDatabase(file, unique) ==
    IF file.state = "absent"
      THEN [state |-> "ok", schema |-> CreatedSchema(unique), rows |-> {}]
      ELSE IF file.schema = "none"
             THEN [file EXCEPT !.schema = CreatedSchema(unique)]
             ELSE file

\* db, err := setupDatabase("files.db"); on an error main prints and returns.
OpenDatabase(flags) ==
    /\ pc = "setup"
    /\ IF dbFile.state = "unusable"
         THEN /\ pc' = "exit"
              /\ UNCHANGED dbFile
         ELSE /\ dbFile' = setupDatabase(dbFile, flags)
              /\ pc' = IF flags THEN "delete" ELSE "list"
    /\ UNCHANGED <<envVars, flagVars, dbAtStart, drivesToScan, vol, totalFiles, walkVars,
                   rejects, chanVars, sent, printVars, scans>>

\* A reset that goes on to the scans when the DELETE failed.
DeleteAllIgnoreError ==
    /\ pc = "delete"
    /\ \E fail \in IoFailures :
         /\ dbFile' = IF deleteFlag /\ ~fail THEN [dbFile EXCEPT !.rows = {}] ELSE dbFile
         /\ rejects' = IF deleteFlag /\ fail THEN rejects + 1 ELSE rejects
    /\ pc' = "list"
    /\ UNCHANGED <<envVars, flagVars, dbAtStart, drivesToScan, vol, totalFiles, walkVars,
                   chanVars, sent, printVars, scans>>

\* if *deleteFlag { db.Exec("DELETE FROM files") }; on an error main returns.
DeleteAll ==
    /\ pc = "delete"
    /\ IF deleteFlag
         THEN \E fail \in IoFailures :
                IF fail
                  THEN /\ pc' = "exit"
                       /\ rejects' = rejects + 1
                       /\ UNCHANGED dbFile
                  ELSE /\ pc' = "list"
                       /\ dbFile' = [dbFile EXCEPT !.rows = {}]
                       /\ UNCHANGED rejects
         ELSE /\ pc' = "list"
              /\ UNCHANGED <<dbFile, rejects>>
    /\ UNCHANGED <<envVars, flagVars, dbAtStart, drivesToScan, vol, totalFiles, walkVars,
                   chanVars, sent, printVars, scans>>

\* drives := listDrives(); src/main.go loops over all of them.
ListDrives(flags) ==
    /\ pc = "list"
    /\ IF flags
         THEN /\ pc' = "filter"
              /\ UNCHANGED drivesToScan
         ELSE /\ pc' = "loop"
              /\ drivesToScan' = drives
    /\ UNCHANGED <<envVars, dbFile, flagVars, dbAtStart, vol, totalFiles, walkVars, rejects,
                   chanVars, sent, printVars, scans>>

\* The -drive filter: no matching drive ends the run, else drivesToScan.
FilterDrives ==
    /\ pc = "filter"
    /\ IF driveFlag # <<>> /\ Matching(drives, driveFlag) = {}
         THEN /\ pc' = "exit"
              /\ UNCHANGED drivesToScan
         ELSE /\ pc' = "loop"
              /\ drivesToScan' = DrivesToScan(drives, driveFlag)
    /\ UNCHANGED <<envVars, dbFile, flagVars, dbAtStart, vol, totalFiles, walkVars, rejects,
                   chanVars, sent, printVars, scans>>

\* The reporter goroutine as the go statement starts it.
NewReporter ==
    [pc |-> "select", lastCount |-> 0, ticks |-> 0, lines |-> 0, final |-> <<>>,
     via |-> "none"]

\* The head of the loop body: make the channels, start the reporter, call
\* walkFiles.
StartVolume ==
    /\ pc = "loop"
    /\ vol < Len(drivesToScan)
    /\ vol' = vol + 1
    /\ progress' = Append(progress, [buf |-> <<>>, closed |-> FALSE])
    /\ done' = Append(done, FALSE)
    /\ reporter' = Append(reporter, NewReporter)
    /\ sent' = Append(sent, <<>>)
    /\ pc' = "prepare"
    /\ UNCHANGED <<envVars, dbFile, flagVars, dbAtStart, drivesToScan, totalFiles, walkVars,
                   rejects, printVars, scans>>

\* After the loop: the grand total, printed when listDrives found a drive.
PrintTotal ==
    /\ pc = "loop"
    /\ vol = Len(drivesToScan)
    /\ totalLine' = IF Len(drives) > 0 THEN Append(totalLine, totalFiles) ELSE totalLine
    /\ pc' = "exit"
    /\ UNCHANGED <<envVars, dbFile, flagVars, dbAtStart, drivesToScan, vol, totalFiles,
                   walkVars, rejects, chanVars, sent, outcomes, scans>>

\* ---------------------------------------------------------------- walkFiles
\* The FileRecord the callback writes for entry i of the drive.
RecordOf(d, i) ==
    [path |-> PathOf(d, i), computer |-> computerName,
     disk_label |-> getDiskLabel(d), size |-> EntrySize(volumes[d].entries[i])]

RowsOfDrive(rows, d) == {r \in rows : r.path[1] = d}

KeySizes(rows) == {<<r.path, r.computer, r.disk_label, r.size>> : r \in rows}

\* What is known of a walkFiles call when it returns.
ScanRecord(total, failed, rows) ==
    [drive |-> drive, total |-> total, err |-> failed,
     rejected |-> rejected,
     rows |-> KeySizes(RowsOfDrive(rows, drive)),
     n |-> Cardinality(RowsOfDrive(rows, drive))]

\* stmt, err := db.Prepare(..); if err != nil { return 0, err }; count := 0
WalkPrepare(upsert) ==
    /\ pc = "prepare"
    /\ IF PrepareOk(upsert, dbFile.schema)
         THEN /\ pc' = "walk"
              /\ calls' = WalkDirCalls(volumes[drive])
              /\ count' = 0
              /\ pos' = 1
              /\ rejected' = {}
              /\ UNCHANGED <<fileCount, walkErr, scans>>
         ELSE /\ pc' = "close"
              /\ fileCount' = 0
              /\ walkErr' = TRUE
              /\ rejected' = {}
              /\ scans' = Append(scans, ScanRecord(0, TRUE, dbFile.rows))
              /\ UNCHANGED <<calls, count, pos>>
    /\ UNCHANGED <<envVars, dbFile, flagVars, dbAtStart, drivesToScan, vol, totalFiles,
                   rejects, chanVars, sent, printVars>>

\* A callback that counts and reports an entry whether or not its write
\* succeeded.
WalkCallbackCountsRejected(upsert) ==
    /\ pc = "walk"
    /\ pos <= Len(calls)
    /\ IF calls[pos].err
         THEN /\ pos' = pos + 1
              /\ UNCHANGED <<dbFile, count, rejected, rejects, pc>>
         ELSE \E fail \in IoFailures :
                LET rec == RecordOf(drive, calls[pos].i)
                    res == IF fail THEN [ok |-> FALSE, rows |-> dbFile.rows]
                           ELSE ExecStmt(upsert, dbFile.schema, dbFile.rows, rec)
                IN  /\ dbFile' = [dbFile EXCEPT !.rows = res.rows]
                    /\ count' = count + 1
                    /\ pc' = "send"
                    /\ rejected' = IF res.ok THEN rejected ELSE rejected \cup {rec.path}
                    /\ rejects' = IF fail THEN rejects + 1 ELSE rejects
                    /\ UNCHANGED pos
    /\ UNCHANGED <<envVars, flagVars, dbAtStart, drivesToScan, vol, totalFiles, calls,
                   fileCount, walkErr, chanVars, sent, printVars, scans>>

\* One call of the callback up to its send: return nil on err != nil, else
\* stmt.Exec and, when it succeeded, count++.
WalkCallback(upsert) ==
    /\ pc = "walk"
    /\ pos <= Len(calls)
    /\ IF calls[pos].err
         THEN /\ pos' = pos + 1
              /\ UNCHANGED <<dbFile, count, rejected, rejects, pc>>
         ELSE \E fail \in IoFailures :
                LET rec == RecordOf(drive, calls[pos].i)
                    res == IF fail THEN [ok |-> FALSE, rows |-> dbFile.rows]
                           ELSE ExecStmt(upsert, dbFile.schema, dbFile.rows, rec)
                IN  IF res.ok
                      THEN /\ dbFile' = [dbFile EXCEPT !.rows = res.rows]
                           /\ count' = count + 1
                           /\ pc' = "send"
                           /\ UNCHANGED <<pos, rejected, rejects>>
                      ELSE /\ rejected' = rejected \cup {rec.path}
                           /\ rejects' = IF fail THEN rejects + 1 ELSE rejects
                           /\ pos' = pos + 1
                           /\ UNCHANGED <<dbFile, count, pc>>
    /\ UNCHANGED <<envVars, flagVars, dbAtStart, drivesToScan, vol, totalFiles, calls,
                   fileCount, walkErr, chanVars, sent, printVars, scans>>

\* A send on the buffered progress channel: it waits for a free slot.
CanSend(ch) == Len(ch.buf) < ProgressCap

Send(ch, v) == [ch EXCEPT !.buf = Append(ch.buf, v)]

\* progress <- count, in the callback
WalkSend ==
    /\ pc = "send"
    /\ CanSend(progress[vol])
    /\ progress' = [progress EXCEPT ![vol] = Send(progress[vol], count)]
    /\ sent' = [sent EXCEPT ![vol] = Append(sent[vol], count)]
    /\ pos' = pos + 1
    /\ pc' = "walk"
    /\ UNCHANGED <<envVars, dbFile, flagVars, dbAtStart, drivesToScan, vol, totalFiles, calls,
                   count, rejected, rejects, fileCount, walkErr, done, reporter,
                   printVars, scans>>

\* The error filepath.WalkDir returns: the one a call of the callback
\* returned, and the callback returns nil in every branch.
WalkDirFailed(tree) == FALSE

\* After WalkDir: progress <- count; return count, err
WalkReturn ==
    /\ pc = "walk"
    /\ pos > Len(calls)
    /\ CanSend(progress[vol])
    /\ progress' = [progress EXCEPT ![vol] = Send(progress[vol], count)]
    /\ sent' = [sent EXCEPT ![vol] = Append(sent[vol], count)]
    /\ fileCount' = count
    /\ walkErr' = WalkDirFailed(volumes[drive])
    /\ scans' = Append(scans, ScanRecord(count, WalkDirFailed(volumes[drive]), dbFile.rows))
    /\ pc' = "close"
    /\ UNCHANGED <<envVars, dbFile, flagVars, dbAtStart, drivesToScan, vol, totalFiles, calls,
                   count, pos, rejected, rejects, done, reporter, printVars>>

\* --------------------------------------------------- the end of a loop body
\* A loop body that goes on without closing progress.
CloseProgressSkipped ==
    /\ pc = "close"
    /\ pc' = "closeDone"
    /\ UNCHANGED <<envVars, dbFile, flagVars, dbAtStart, drivesToScan, vol, totalFiles,
                   walkVars, rejects, progress, done, reporter, sent, printVars, scans>>

\* close(progress), after walkFiles returned
CloseProgress ==
    /\ pc = "close"
    /\ progress' = [progress EXCEPT ![vol].closed = TRUE]
    /\ pc' = "closeDone"
    /\ UNCHANGED <<envVars, dbFile, flagVars, dbAtStart, drivesToScan, vol, totalFiles,
                   walkVars, rejects, done, reporter, sent, printVars, scans>>

\* close(done)
CloseDone ==
    /\ pc = "closeDone"
    /\ done' = [done EXCEPT ![vol] = TRUE]
    /\ pc' = "finish"
    /\ UNCHANGED <<envVars, dbFile, flagVars, dbAtStart, drivesToScan, vol, totalFiles,
                   walkVars, rejects, progress, reporter, sent, printVars, scans>>

\* A loop body that keeps the count of the last drive as the total.
FinishVolumeLastCount ==
    /\ pc = "finish"
    /\ outcomes' = Append(outcomes, [drive |-> drive, total |-> fileCount, err |-> walkErr])
    /\ totalFiles' = fileCount
    /\ pc' = "loop"
    /\ UNCHANGED <<envVars, dbFile, flagVars, dbAtStart, drivesToScan, vol, walkVars, rejects,
                   chanVars, sent, totalLine, scans>>

\* A loop body that leaves the loop when walkFiles returned an error.
FinishVolumeBreakOnError ==
    /\ pc = "finish"
    /\ outcomes' = Append(outcomes, [drive |-> drive, total |-> fileCount, err |-> walkErr])
    /\ totalFiles' = totalFiles + fileCount
    /\ pc' = IF walkErr THEN "exit" ELSE "loop"
    /\ UNCHANGED <<envVars, dbFile, flagVars, dbAtStart, drivesToScan, vol, walkVars, rejects,
                   chanVars, sent, totalLine, scans>>

\* time.Sleep(500ms), the outcome line of the drive, totalFiles += fileCount.
\* The sleep waits for nothing: the reporter may or may not have run.
FinishVolume ==
    /\ pc = "finish"
    /\ outcomes' = Append(outcomes, [drive |-> drive, total |-> fileCount, err |-> walkErr])
    /\ totalFiles' = totalFiles + fileCount
    /\ pc' = "loop"
    /\ UNCHANGED <<envVars, dbFile, flagVars, dbAtStart, drivesToScan, vol, walkVars, rejects,
                   chanVars, sent, totalLine, scans>>

\* ------------------------------------------------- the reporter goroutine
\* The goroutine of drive k runs while the process does: main returning ends
\* every goroutine.
Selecting(k) ==
    /\ pc # "exit"
    /\ k \in 1..Len(reporter)
    /\ reporter[k].pc = "select"

\* case <-done: return
ReporterDone(k) ==
    /\ Selecting(k)
    /\ done[k]
    /\ reporter' = [reporter EXCEPT ![k].pc = "stopped", ![k].via = "done"]
    /\ UNCHANGED <<envVars, dbFile, flagVars, dbAtStart, pc, drivesToScan, vol, totalFiles,
                   walkVars, rejects, progress, done, sent, printVars, scans>>

\* A reporter that reads progress only once it was told to stop.
ReporterReceiveAfterDone(k) ==
    /\ Selecting(k)
    /\ done[k]
    /\ progress[k].buf # <<>>
    /\ reporter' = [reporter EXCEPT ![k].lastCount = Head(progress[k].buf)]
    /\ progress' = [progress EXCEPT ![k].buf = Tail(progress[k].buf)]
    /\ UNCHANGED <<envVars, dbFile, flagVars, dbAtStart, pc, drivesToScan, vol, totalFiles,
                   walkVars, rejects, done, sent, printVars, scans>>

\* A reporter that prints a line for every value it receives.
ReporterReceiveRendering(k) ==
    /\ Selecting(k)
    /\ progress[k].buf # <<>>
    /\ reporter' = [reporter EXCEPT ![k].lastCount = Head(progress[k].buf),
                                    ![k].lines = reporter[k].lines + 1]
    /\ progress' = [progress EXCEPT ![k].buf = Tail(progress[k].buf)]
    /\ UNCHANGED <<envVars, dbFile, flagVars, dbAtStart, pc, drivesToScan, vol, totalFiles,
                   walkVars, rejects, done, sent, printVars, scans>>

\* A reporter that counts what it receives instead of keeping the value.
ReporterReceiveCounting(k) ==
    /\ Selecting(k)
    /\ progress[k].buf # <<>>
    /\ reporter' = [reporter EXCEPT ![k].lastCount = reporter[k].lastCount + 1]
    /\ progress' = [progress EXCEPT ![k].buf = Tail(progress[k].buf)]
    /\ UNCHANGED <<envVars, dbFile, flagVars, dbAtStart, pc, drivesToScan, vol, totalFiles,
                   walkVars, rejects, done, sent, printVars, scans>>

\* case c, ok := <-progress with ok: lastCount = c
ReporterReceive(k) ==
    /\ Selecting(k)
    /\ progress[k].buf # <<>>
    /\ reporter' = [reporter EXCEPT ![k].lastCount = Head(progress[k].buf)]
    /\ progress' = [progress EXCEPT ![k].buf = Tail(progress[k].buf)]
    /\ UNCHANGED <<envVars, dbFile, flagVars, dbAtStart, pc, drivesToScan, vol, totalFiles,
                   walkVars, rejects, done, sent, printVars, scans>>

\* A receive that reports a closed channel while values are still in it.
ReporterClosedUndrained(k) ==
    /\ Selecting(k)
    /\ progress[k].closed
    /\ reporter' = [reporter EXCEPT ![k].pc = "stopped", ![k].via = "closed",
                                    ![k].lines = reporter[k].lines + 1,
                                    ![k].final = <<reporter[k].lastCount>>]
    /\ UNCHANGED <<envVars, dbFile, flagVars, dbAtStart, pc, drivesToScan, vol, totalFiles,
                   walkVars, rejects, progress, done, sent, printVars, scans>>

\* case c, ok := <-progress with !ok: print "Channel closed. ..." and return
ReporterClosed(k) ==
    /\ Selecting(k)
    /\ progress[k].buf = <<>>
    /\ progress[k].closed
    /\ reporter' = [reporter EXCEPT ![k].pc = "stopped", ![k].via = "closed",
                                    ![k].lines = reporter[k].lines + 1,
                                    ![k].final = <<reporter[k].lastCount>>]
    /\ UNCHANGED <<envVars, dbFile, flagVars, dbAtStart, pc, drivesToScan, vol, totalFiles,
                   walkVars, rejects, progress, done, sent, printVars, scans>>

\* The ticks the reporters k.. of this run handled.
RECURSIVE Ticks(_, _)
Ticks(rs, k) == IF k > Len(rs) THEN 0 ELSE rs[k].ticks + Ticks(rs, k + 1)

\* case <-ticker.C: print "Files processed: ..."
ReporterTick(k) ==
    /\ Selecting(k)
    /\ Ticks(reporter, 1) < MaxTicks
    /\ reporter' = [reporter EXCEPT ![k].ticks = reporter[k].ticks + 1,
                                    ![k].lines = reporter[k].lines + 1]
    /\ UNCHANGED <<envVars, dbFile, flagVars, dbAtStart, pc, drivesToScan, vol, totalFiles,
                   walkVars, rejects, progress, done, sent, printVars, scans>>

\* ------------------------------------------------------------- the program
\* The program is started again with the same command line on the same
\* machine and the same files.db, while the calls of walkFiles it can make
\* are within MaxScans.
NewRun ==
    /\ pc = "exit"
    /\ Len(scans) + Len(drives) <= MaxScans
    /\ pc' = "setup"
    /\ drivesToScan' = <<>>
    /\ vol' = 0
    /\ totalFiles' = 0
    /\ calls' = <<>>
    /\ count' = 0
    /\ pos' = 0
    /\ rejected' = {}
    /\ fileCount' = 0
    /\ walkErr' = FALSE
    /\ progress' = <<>>
    /\ done' = <<>>
    /\ reporter' = <<>>
    /\ sent' = <<>>
    /\ outcomes' = <<>>
    /\ totalLine' = <<>>
    /\ dbAtStart' = dbFile
    /\ UNCHANGED <<envVars, dbFile, flagVars, rejects, scans>>

\* The steps of the reporter goroutines.
ReporterStep ==
    \E k \in 1..Len(reporter) :
        \/ ReporterDone(k)
        \/ ReporterReceive(k)
        \/ ReporterClosed(k)
        \/ ReporterTick(k)

\* The steps main takes in both builds, from the loop over the drives on.
ScanStep(upsert) ==
    \/ StartVolume
    \/ WalkPrepare(upsert)
    \/ WalkCallback(upsert)
    \/ WalkSend
    \/ WalkReturn
    \/ CloseProgress
    \/ CloseDone
    \/ FinishVolume
    \/ PrintTotal

\* One run of src/main.go.
MainStep ==
    \/ OpenDatabase(FALSE)
    \/ ListDrives(FALSE)
    \/ ScanStep(FALSE)

NextRun == MainStep \/ ReporterStep

\* src/main.go, run after run.
Next == NextRun \/ NewRun

Spec == Init /\ [][Next]_vars

\* src/unnamed/part_001, lines 1-303
NextFlags ==
    \/ OpenDatabase(TRUE)
    \/ DeleteAll
    \/ ListDrives(TRUE)
    \/ FilterDrives
    \/ ScanStep(TRUE)
    \/ ReporterStep
    \/ NewRun

SpecFlags == InitFlags /\ [][NextFlags]_vars

\* ----------------------------------------------------------- the fair runs
\* One drive that holds the large tree, or a machine of Init, scanned on a
\* store that is new or was made by the oldest build and that refuses no
\* write.
InitLive ==
    /\ \/ /\ drives = <<"C">>
          /\ volumes = [d \in DriveLetters |-> IF d = "C" THEN BigTree ELSE UnreadableRoot]
       \/ Machine(Trees, MaxEntries)
    /\ dbFile \in {f \in DbFiles : f.state = "absent" \/ f.schema = "path"}
    /\ dbAtStart = dbFile
    /\ rejects = MaxRejects
    /\ deleteFlag = FALSE
    /\ driveFlag = <<>>
    /\ scans = <<>>
    /\ ProcessStart

\* The Go scheduler runs every goroutine that can run, and a select picks
\* among its ready cases at random: main goes on while it is not blocked, and
\* a reporter whose receive case stays ready takes it.
Fairness ==
    /\ WF_vars(MainStep)
    /\ \A k \in 1..Cardinality(DriveLetters) : WF_vars(ReporterReceive(k))

\* One run of src/main.go under a fair scheduler.
SpecLive == InitLive /\ [][NextRun]_vars /\ Fairness

\* ------------------------------------------------------------ the claims
\* walkFiles is running.
Walking == pc \in {"prepare", "walk", "send"}

\* walkFiles has just returned fileCount and err to main.
Returned == pc = "close"

\* The tree walkFiles was called on.
tree == volumes[drive]

\* The entries of a tree WalkDir reaches.
Entries(t) == IF t.rootOk THEN 1..Len(t.entries) ELSE {}

NonDecreasing(q) == \A i \in 1..(Len(q) - 1) : q[i] <= q[i + 1]

\* C1: no two rows of the store share the natural key (path, computer,
\* disk_label), whatever volumes were scanned and however often.
C1_NaturalKeyUnique ==
    \A r1, r2 \in dbFile.rows : SameKey(r1, r2) => r1 = r2

\* C2: two scans of the same unchanged drive with the upsert statement, the
\* store accepting every write of both, return the same total and leave the
\* same rows for that drive: the same number of rows, the same keys, the same
\* size per key.
C2_RescanIdempotent ==
    \A i, j \in 1..Len(scans) :
        (/\ i < j
         /\ scans[i].drive = scans[j].drive
         /\ ~scans[i].err /\ ~scans[j].err
         /\ scans[i].rejected = {} /\ scans[j].rejected = {})
            => /\ scans[j].total = scans[i].total
               /\ scans[j].rows = scans[i].rows
               /\ scans[j].n = scans[i].n

\* A drive of at least two entries was scanned twice, all writes accepted.
C2_Rescanned ==
    \E i, j \in 1..Len(scans) :
        /\ i < j
        /\ scans[i].drive = scans[j].drive
        /\ scans[i].rejected = {} /\ scans[j].rejected = {}
        /\ ~scans[i].err /\ ~scans[j].err
        /\ scans[j].total >= 2
        /\ scans[j].n >= 2

\* C3: when walkFiles returns, the values it sent on progress are
\* non-decreasing and end with a final value equal to the returned total,
\* sent even when nothing was persisted.
C3_ProgressEndsWithTotal ==
    Returned =>
        /\ sent[vol] # <<>>
        /\ NonDecreasing(sent[vol])
        /\ sent[vol][Len(sent[vol])] = fileCount

\* The entries of a tree that are readable in the sense of C4: their stat
\* succeeds and, for a directory, its contents can be read.
Readable(t) == {i \in Entries(t) : t.entries[i].kind \in {"file", "dir"}}

EmptyRoot == [rootOk |-> TRUE, entries |-> <<[kind |-> "dir", size |-> 0]>>]

\* C5 as claimed: walkFiles on a root directory without entries returns
\* total 0 and a nil error.
C5_EmptyRootTotalZero ==
    (Returned /\ tree = EmptyRoot /\ PrepareOk(FALSE, dbFile.schema)) =>
        (fileCount = 0 /\ ~walkErr)

\* C5 as amended: walkFiles with its statement prepared, on a root directory
\* without entries, returns a nil error and total 1, the record of the root
\* directory itself, written with size 0, when the store accepts that write
\* (total 0 when it refuses it); on a root that cannot be read it returns
\* total 0 and a nil error.
C5_EmptyRootTotalOne ==
    (Returned /\ PrepareOk(FALSE, dbFile.schema)) =>
        /\ tree = EmptyRoot =>
             /\ ~walkErr
             /\ fileCount = 1 - Cardinality(rejected)
             /\ rejected = {} =>
                  /\ sent[vol] = <<1, 1>>
                  /\ \E r \in dbFile.rows : SameKey(r, RecordOf(drive, 1)) /\ r.size = 0
        /\ tree = UnreadableRoot => (~walkErr /\ fileCount = 0 /\ sent[vol] = <<0>>)

\* An empty root directory was walked and its own record counted.
C5_EmptyRootScanned ==
    /\ Returned
    /\ tree = EmptyRoot
    /\ fileCount = 1
    /\ rejected = {}

\* C6: walkFiles returns an error exactly when the root cannot be read or
\* the statement cannot be prepared.
C6_ErrorIffCannotBegin ==
    Returned => (walkErr <=> (~tree.rootOk \/ ~PrepareOk(FALSE, dbFile.schema)))

\* C7: a walkFiles that returns an error has sent its count on progress
\* before.
C7_TerminalErrorReportsCount ==
    (Returned /\ walkErr) => sent[vol] # <<>>

\* C8: a reporter that stopped has rendered exactly one final line.
C8_FinalLineRendered ==
    \A k \in 1..Len(reporter) :
        reporter[k].pc = "stopped" => Len(reporter[k].final) = 1

\* C9: every reporter returns: none is left running when the run is over,
\* and none returns while its walkFiles runs.
C9_ReporterReturns ==
    /\ pc = "exit" => \A k \in 1..Len(reporter) : reporter[k].pc = "stopped"
    /\ \A k \in 1..Len(reporter) :
         (reporter[k].pc = "stopped" /\ k = vol) => ~Walking

\* C10: under a fair scheduler every send of walkFiles on progress completes
\* and walkFiles returns.
C10_WalkerReturns ==
    /\ (pc = "send") ~> (pc = "walk")
    /\ Walking ~> Returned

\* walkFiles waits with a count to send on a progress channel of 100 values.
C10_WalkerBlocked ==
    /\ pc = "send"
    /\ Len(progress[vol].buf) = ProgressCap

\* The values the reporter of drive k received: those walkFiles sent that
\* are no longer in the channel.
Received(k) == SubSeq(sent[k], 1, Len(sent[k]) - Len(progress[k].buf))

\* A step in which the reporter of drive k prints a line: a tick line or the
\* "Channel closed. ..." line.  The count it prints is its lastCount.
Renders(k) ==
    /\ k <= Len(reporter')
    /\ \/ reporter'[k].ticks > reporter[k].ticks
       \/ Len(reporter'[k].final) > Len(reporter[k].final)

\* C11 as claimed: every count a reporter prints, on a tick or in the final
\* line, is a value the walkFiles of its drive sent on progress before.
C11_RenderedWasSent ==
    [][\A k \in 1..Len(reporter) :
          Renders(k) =>
              \E i \in 1..Len(sent[k]) : sent[k][i] = reporter[k].lastCount]_vars

\* C11 as amended: every count a reporter prints is the value it received
\* last, which the walkFiles of its drive sent before, or the 0 lastCount
\* starts with when it has received nothing yet.
C11_RenderedIsLastReceived ==
    [][\A k \in 1..Len(reporter) :
          Renders(k) =>
              reporter[k].lastCount =
                  IF Received(k) = <<>> THEN 0
                  ELSE Received(k)[Len(Received(k))]]_vars

\* A reporter printed a tick line and a final line with a count it received.
C11_RenderedReceivedCount ==
    \E k \in 1..Len(reporter) :
        /\ reporter[k].ticks > 0
        /\ reporter[k].final # <<>>
        /\ reporter[k].final[1] > 0
        /\ reporter[k].final[1] = sent[k][Len(sent[k])]

\* C12: volumes are scanned one at a time, main calling walkFiles and
\* waiting for it to return, and while the walkFiles of a drive runs no
\* reporter started for an earlier drive is still running.
C12_OneReporterPerWalker ==
    Walking => \A k \in 1..Len(reporter) : k < vol => reporter[k].pc = "stopped"

\* The step in which main finds that -drive matches no drive of the list
\* and returns.
FilterMiss == pc = "filter" /\ pc' = "exit"

\* C13: a run that ends on a filter miss has attempted no scan and has
\* neither written nor deleted a row of the store, whatever the flags are.
C13_FilterMissWritesNothing ==
    [][FilterMiss => (dbFile.rows = dbAtStart.rows /\ reporter = <<>>)]_vars

\* The exit status of the process when main returns at a given place: every
\* way out of main is a plain return, so the status is 0.
ExitStatus(at) == 0

\* The step in which main returns.
MainReturns == pc # "exit" /\ pc' = "exit"

\* C14: the process ends with a non-zero exit status exactly when the store
\* cannot be opened or the -drive filter matches no drive.
C14_ExitStatus ==
    [][MainReturns => (ExitStatus(pc) # 0 <=> pc \in {"setup", "filter"})]_vars

\* C15: an error of walkFiles ends the scan of its drive only.  Every
\* outcome line is printed for the drives of the list in their order, after
\* main closed the progress and done channels of that drive's reporter; and
\* once walkFiles returned an error main goes on until every drive of the
\* list has its outcome line and the run is over.
C15_ErrorIsPerVolume ==
    /\ [](\A k \in 1..Len(outcomes) :
             /\ outcomes[k].drive = drivesToScan[k]
             /\ progress[k].closed
             /\ done[k])
    /\ (Returned /\ walkErr) ~> (pc = "exit" /\ Len(outcomes) = Len(drivesToScan))

\* walkFiles returned an error for the first of two drives, and the second
\* drive was scanned too.
C15_ScannedAfterError ==
    /\ pc = "exit"
    /\ Len(drivesToScan) = 2
    /\ Len(outcomes) = 2
    /\ outcomes[1].err
    /\ Len(scans) = 2

\* The sum of the totals of the outcome lines k.. of this run.
RECURSIVE SumTotals(_, _)
SumTotals(os, k) == IF k > Len(os) THEN 0 ELSE os[k].total + SumTotals(os, k + 1)

\* C16: the grand total main prints is the sum of the totals walkFiles
\* returned for the drives of this run, and the number of records this run
\* persisted: the rows the plain INSERT added to the store.
C16_GrandTotalIsSum ==
    totalLine # <<>> =>
        /\ totalLine[1] = SumTotals(outcomes, 1)
        /\ totalLine[1] = Cardinality(dbFile.rows) - Cardinality(dbAtStart.rows)
        /\ \A k \in 1..Len(outcomes) :
             outcomes[k].total = scans[Len(scans) - Len(outcomes) + k].total

\* The grand total of a run over two drives that persisted records on both.
C16_TotalOverTwoDrives ==
    /\ pc = "exit"
    /\ totalLine # <<>>
    /\ Len(outcomes) = 2
    /\ outcomes[1].total > 0
    /\ outcomes[2].total > 0

\* C17: a run of src/main.go that opened the store prints one outcome line
\* for each drive of the list and one grand-total line, also when the list
\* is empty, and then starts no reporter and writes nothing.
C17_OneSummaryPerRun ==
    (pc = "exit" /\ dbFile.state # "unusable") =>
        /\ Len(outcomes) = Len(drives)
        /\ \A k \in 1..Len(outcomes) : outcomes[k].drive = drives[k]
        /\ Len(totalLine) = 1
        /\ drives = <<>> => (reporter = <<>> /\ dbFile.rows = dbAtStart.rows)

\* main has opened the store and walkFiles has not yet been called in this
\* run.
BeforeFirstScan ==
    \/ pc = "list"
    \/ pc = "loop" /\ vol = 0
    \/ pc = "prepare" /\ vol = 1

\* C18: setupDatabase on a files.db that exists leaves its rows as they
\* were, and its files table as it was when it had one: the rows of earlier
\* runs are there when the first walkFiles of the run starts.
C18_SetupKeepsStore ==
    (BeforeFirstScan /\ dbAtStart.state = "ok") =>
        /\ dbFile.rows = dbAtStart.rows
        /\ dbAtStart.schema # "none" => dbFile.schema = dbAtStart.schema

\* The first walkFiles of a later run starts on a store that holds a row an
\* earlier run of the program wrote.
C18_LaterRunFindsRows ==
    /\ pc = "prepare"
    /\ vol = 1
    /\ Len(scans) > 0
    /\ \E r \in dbFile.rows : r.path = PathOf("C", 1)

\* The rows walkFiles writes in this run for the drives it has started on.
WrittenInRun(r) ==
    \E k \in 1..vol :
        \E i \in Entries(volumes[drivesToScan[k]]) :
            /\ SameKey(r, RecordOf(drivesToScan[k], i))
            /\ r.size = RecordOf(drivesToScan[k], i).size

\* C19: with -delete-all, once main is past the reset the store holds no row
\* but those walkFiles wrote in this run, and none at all before the first
\* walkFiles starts; a DELETE that fails ends the run before any scan.
C19_ResetBeforeScans ==
    /\ []((deleteFlag /\ pc \notin {"setup", "delete", "exit"}) =>
             /\ \A r \in dbFile.rows : WrittenInRun(r)
             /\ BeforeFirstScan => dbFile.rows = {})
    /\ []((deleteFlag /\ reporter # <<>>) => \A r \in dbFile.rows : WrittenInRun(r))
    /\ [][(pc = "delete" /\ rejects' > rejects) =>
             (pc' = "exit" /\ reporter' = <<>>)]_vars

\* A run with -delete-all that found rows of earlier runs in the store ends
\* with rows of its own only.
C19_ResetThenScanned ==
    /\ deleteFlag
    /\ pc = "exit"
    /\ dbAtStart.rows # {}
    /\ dbFile.rows # {}
    /\ dbFile.rows \cap dbAtStart.rows = {}
    /\ Len(outcomes) > 0

\* A step of the callback in which stmt.Exec returned an error.
WriteRejected == pc = "walk" /\ rejected' # rejected

\* C20: a write the store rejects leaves count as it is, sends nothing on
\* progress and lets the walk go on with the next entry; walkFiles still
\* returns a nil error, its total is the number of writes that succeeded, and
\* it sent one value for each of them and the final one.
C20_RejectedWriteSkipped ==
    /\ [][WriteRejected =>
             /\ count' = count
             /\ sent' = sent
             /\ progress' = progress
             /\ dbFile' = dbFile
             /\ pc' = "walk"
             /\ pos' = pos + 1]_vars
    /\ []((Returned /\ rejected # {}) =>
             /\ ~walkErr
             /\ fileCount = Cardinality({i \in Entries(tree) : PathOf(drive, i) \notin rejected})
             /\ Len(sent[vol]) = fileCount + 1)

\* walkFiles returned after the store rejected the write of one entry and
\* accepted the write of a later one.
C20_WroteAfterReject ==
    /\ Returned
    /\ fileCount > 0
    /\ \E i, j \in Entries(tree) :
         /\ i < j
         /\ PathOf(drive, i) \in rejected
         /\ PathOf(drive, j) \notin rejected

\* A step in which the reporter of drive k takes a value from progress.
Receives(k) ==
    /\ k <= Len(progress')
    /\ Len(progress'[k].buf) < Len(progress[k].buf)

\* C21: a reporter prints on a tick and on the closing of progress only.  A
\* receive changes lastCount and nothing else of the reporter and prints no
\* line, so the lines a reporter printed are at most the ticks it handled
\* and one, however many values walkFiles sent.
C21_RendersOnTickOrClose ==
    /\ [][\A k \in 1..Len(reporter) :
             Receives(k) =>
                 reporter'[k] = [reporter[k] EXCEPT !.lastCount = Head(progress[k].buf)]]_vars
    /\ [](\A k \in 1..Len(reporter) :
             /\ reporter[k].lines <= reporter[k].ticks + 1
             /\ reporter[k].lines = reporter[k].ticks + Len(reporter[k].final))

\* A reporter that received three values printed two lines: one on its one
\* tick and the final one.
C21_FewerLinesThanValues ==
    \E k \in 1..Len(reporter) :
        /\ Len(Received(k)) >= 3
        /\ reporter[k].ticks = 1
        /\ reporter[k].lines = 2

\* The positions in the drive list of the drives whose letter is, but for
\* case, the first character of the trimmed -drive value.
SameLetter ==
    {k \in 1..Len(drives) :
        /\ TrimSpace(driveFlag) # <<>>
        /\ ToLower(drives[k]) = ToLower(TrimSpace(driveFlag)[1])}

\* The drives the claim has the run scan.
Selected ==
    IF driveFlag = <<>> THEN drives
    ELSE <<drives[CHOOSE k \in SameLetter : \A j \in SameLetter : k <= j]>>

\* C22: with -drive given and a drive of the list that has its letter, case
\* ignored, main scans that drive alone, the first such of the list under
\* its name in the list; without -drive it scans every drive of the list in
\* the order of the list.
C22_FilterSelectsFirstMatch ==
    /\ [][(pc = "filter" /\ (driveFlag = <<>> \/ SameLetter # {})) =>
             (pc' = "loop" /\ drivesToScan' = Selected)]_vars
    /\ [](\A k \in 1..Len(outcomes) : outcomes[k].drive = drivesToScan[k])
    /\ []((pc = "loop" /\ vol = Len(drivesToScan)) => Len(outcomes) = Len(drivesToScan))

\* A run with -drive " d:" on a machine with the drives C and D scanned D
\* alone.
C22_ScannedSecondDriveOnly ==
    /\ pc = "exit"
    /\ driveFlag = <<" ", "d", ":">>
    /\ drives = <<"C", "D">>
    /\ Len(outcomes) = 1
    /\ outcomes[1].drive = "D"

\* C23: once setupDatabase has returned without an error the files table
\* has the constraint UNIQUE(path, computer, disk_label), whatever build of
\* the program made files.db, and the upsert of walkFiles can be prepared.
C23_SetupEnforcesUnique ==
    (pc \notin {"setup", "exit"}) =>
        /\ dbFile.schema = "unique"
        /\ PrepareOk(TRUE, dbFile.schema)

\* The total walkFiles returned for drive k of this run.
ReturnedTotal(k) == scans[Len(scans) - (IF Walking THEN vol - 1 ELSE vol) + k].total

\* C24: a reporter that returned on finding progress closed has received
\* every value walkFiles sent, in the order sent, and the count of its
\* "Channel closed" line is the total walkFiles returned for that drive.
C24_ClosedBranchShowsTotal ==
    \A k \in 1..Len(reporter) :
        reporter[k].via = "closed" =>
            /\ progress[k].buf = <<>>
            /\ Received(k) = sent[k]
            /\ sent[k] # <<>> => reporter[k].lastCount = sent[k][Len(sent[k])]
            /\ reporter[k].final = <<ReturnedTotal(k)>>

\* A reporter returned on the closed channel after a walk that persisted
\* two records.
C24_ClosedAfterTwoRecords ==
    \E k \in 1..Len(reporter) :
        /\ reporter[k].via = "closed"
        /\ Len(sent[k]) = 3
        /\ reporter[k].final = <<2>>

\* main is past close(progress) and close(done) of drive k.
ChannelsClosedFor(k) == k < vol \/ (k = vol /\ pc \in {"finish", "loop", "exit"})

\* C25: main closes the progress and the done channel of every drive once:
\* each is open when main closes it, stays closed, and is closed when the
\* loop body is over; and walkFiles sends on progress only while it is open,
\* whether it returns an error or not.
C25_ChannelsClosedOnce ==
    /\ [][(pc = "close" /\ pc' = "closeDone") =>
             (~progress[vol].closed /\ progress'[vol].closed)]_vars
    /\ [][(pc = "closeDone" /\ pc' = "finish") => (~done[vol] /\ done'[vol])]_vars
    /\ [][\A k \in 1..Len(progress) :
             k <= Len(progress') =>
                 /\ progress[k].closed => progress'[k].closed
                 /\ done[k] => done'[k]
                 /\ sent'[k] # sent[k] => (~progress[k].closed /\ ~progress'[k].closed)]_vars
    /\ [](\A k \in 1..Len(progress) :
             /\ ChannelsClosedFor(k) => (progress[k].closed /\ done[k])
             /\ (k = vol /\ Walking) => (~progress[k].closed /\ ~done[k]))

\* A run over two drives is over, with values sent on both progress
\* channels and all four channels closed.
C25_TwoVolumesClosed ==
    /\ pc = "exit"
    /\ Len(progress) = 2
    /\ \A k \in 1..2 : progress[k].closed /\ done[k] /\ sent[k] # <<>>

====
